---- MODULE Spec2Model ----
(***************************************************************************)
(* qbench: the benchmark orchestration of wip_benchmarks.py as a state     *)
(* machine.  One action per step of main / run_benchmarks / benchmark /    *)
(* save_benchmark_data / generate_plots.  The simulator library is the     *)
(* environment: a backend construction either succeeds or raises, and a    *)
(* timed execution returns a successful result, returns a result carrying  *)
(* a failure indicator, or raises.                                         *)
(***************************************************************************)
EXTENDS Integers, Sequences, FiniteSets, TLC

\* ---------------------------------------------------------------- bounds
MaxQubits == 2
MaxRepeats == 2
MaxBackendArgs == 1
MaxScriptRows == 3

\* ------------------------------------------------------- float values
\* A float is NaN, +inf, or a non-negative rational num/den (kept as the
\* quotient the code forms, so den of a mean is the number of samples).
NaN == [kind |-> "nan"]
Inf == [kind |-> "inf"]
Num(n, d) == [kind |-> "num", num |-> n, den |-> d]

RECURSIVE Sum(_)
Sum(s) == IF s = <<>> THEN 0 ELSE Head(s) + Sum(Tail(s))

RECURSIVE SumSq(_)
SumSq(s) == IF s = <<>> THEN 0 ELSE Head(s) * Head(s) + SumSq(Tail(s))

\* np.mean(times): sum / len; the empty list gives nan (with a warning)
Mean(t) == IF Len(t) = 0 THEN NaN ELSE Num(Sum(t), Len(t))

\* np.std(times): sqrt(mean(|x - mean|^2)); kept as the exact rational under
\* the root, (n * sum(x^2) - sum(x)^2) / n^2; the empty list gives nan
Std(t) ==
    IF Len(t) = 0 THEN NaN
    ELSE [kind |-> "sqrt", num |-> Len(t) * SumSq(t) - Sum(t) * Sum(t),
          den |-> Len(t) * Len(t)]

\* Div with a failed operand filled in as zero
DivZeroFill(a, c) ==
    IF a.kind = "nan" \/ c.kind = "nan" THEN Num(0, 1)
    ELSE IF c.num = 0 THEN (IF a.num = 0 THEN NaN ELSE Inf)
    ELSE Num(a.num * c.den, a.den * c.num)

\* numpy float division cpu_times / times, elementwise
Div(a, c) ==
    IF a.kind = "nan" \/ c.kind = "nan" THEN NaN
    ELSE IF c.num = 0 THEN (IF a.num = 0 THEN NaN ELSE Inf)
    ELSE Num(a.num * c.den, a.den * c.num)

\* ------------------------------------------------------- python range
RangeLen(start, stop, step) ==
    IF step > 0
    THEN (IF start < stop THEN (stop - start + step - 1) \div step ELSE 0)
    ELSE (IF start > stop THEN (start - stop - step - 1) \div (0 - step) ELSE 0)

Range(start, stop, step) ==
    [j \in 1..RangeLen(start, stop, step) |-> start + (j - 1) * step]

\* ------------------------------------------------------- configuration
BackendChoices == {"cpu", "gpu_default", "gpu_custatevec", "all"}

\* the order in which setup_backends inserts into the dict
BackendNames == <<"cpu", "gpu_default", "gpu_custatevec">>

NameSet == {BackendNames[j] : j \in 1..Len(BackendNames)}

BackendLists ==
    UNION {[1..n -> BackendChoices] : n \in 1..MaxBackendArgs}

\* end - start of one execution.  The clock is abstracted to one tick per
\* execution: the table depends on how many durations were collected and on
\* which executions failed, not on what the clock read.
Durations == {1}

StepValues == {0 - 1, 0, 1}

\* The options that shape the sweep.  --save-data and --no-plots are each read
\* once, after the sweep, and are drawn where they are read.
ArgsSet ==
    [backends : BackendLists, repeats : 0..MaxRepeats,
     min_qubits : 1..MaxQubits, max_qubits : 1..MaxQubits, step : StepValues,
     warmup : BOOLEAN]

\* requests of more than MaxBackendArgs names: room for a name given twice,
\* for 'all' given with a name, and for names given out of order
LongLists == [1..MaxBackendArgs + 1 -> BackendChoices]

\* command lines with such a request and a sweep of one timed repeat
ListArgsSet ==
    [backends : LongLists, repeats : {1}, min_qubits : {1},
     max_qubits : 1..MaxQubits, step : {1}, warmup : BOOLEAN]

VARIABLES
    args,               \* the parsed command line
    pc,                 \* position in main / run_benchmarks / benchmark
    backends,           \* dict of constructed simulators, as its key order
    qubit_sizes,        \* the sweep
    results,            \* name -> [times, stds]
    i,                  \* number of sizes taken by the outer for loop
    b,                  \* position of the inner for loop in backends
    k,                  \* benchmark(): executions appended in the last call
    times,              \* benchmark(): local list of durations
    result,             \* benchmark(): how the last run()/result() ended
    elapsed,            \* benchmark(): end - start of the last execution
    failure_indicator,  \* history: a result of this trial carried a failure
    ran,                \* history: names on which simulator.run was called
    init_failed,        \* history: names whose construction raised
    fault,              \* exception that reached main, or "none"
    at,                 \* pc at which that exception was raised
    exit_status,        \* process exit status, -1 while running
    csv,                \* rows written by save_benchmark_data
    plots,              \* series handed to matplotlib
    exports,            \* export adapters that were invoked
    in_flight,          \* jobs submitted by run() whose result() has not ended
    warmed,             \* history: names of the warmup executions, in order
    warmup_raised,      \* history: a warmup execution raised
    constructed,        \* history: names setup_backends tried to construct
    prev,               \* the run made before this one, if any
    script              \* benchmarks.py: its three lists of times

vars == <<args, pc, backends, qubit_sizes, results, i, b, k, times, result,
          elapsed, failure_indicator, ran, init_failed, fault, at,
          exit_status, csv, plots, exports, in_flight, warmed,
          warmup_raised, constructed, prev, script>>

locals == <<k, times, result, elapsed>>

\* a dict with no key
EmptyDict == [n \in {} |-> NaN]

NoPlots == [speedup |-> EmptyDict, times |-> EmptyDict]

\* benchmarks.py before its loop: three empty lists
NoScript ==
    [cpu_times |-> <<>>, gpu_default_times |-> <<>>,
     gpu_custatevec_times |-> <<>>]

\* nothing has run yet
Fresh ==
    /\ backends = <<>>
    /\ qubit_sizes = <<>>
    /\ results = EmptyDict
    /\ i = 0
    /\ b = 1
    /\ k = 0
    /\ times = <<>>
    /\ result = "none"
    /\ elapsed = 0
    /\ failure_indicator = FALSE
    /\ ran = {}
    /\ init_failed = {}
    /\ fault = "none"
    /\ at = "none"
    /\ exit_status = 0 - 1
    /\ csv = <<>>
    /\ plots = NoPlots
    /\ exports = {}
    /\ in_flight = {}
    /\ warmed = <<>>
    /\ warmup_raised = FALSE
    /\ constructed = <<>>
    /\ prev = <<>>
    /\ script = NoScript

\* main() is about to call run_benchmarks
Start == pc = "setup_backends" /\ Fresh

\* the process starts with a parsed command line
Init == args \in ArgsSet /\ Start

\* the process starts with a command line that names several backends
InitLists == args \in ListArgsSet /\ Start

Keys(seq) == {seq[j] : j \in 1..Len(seq)}

RECURSIVE Flatten(_)
Flatten(ss) == IF ss = <<>> THEN <<>> ELSE Head(ss) \o Flatten(Tail(ss))

\* 'all' in backend_list or name in backend_list
Requested(name) ==
    \E j \in 1..Len(args.backends) : args.backends[j] \in {"all", name}

\* main(): an exception out of run_benchmarks is printed and the process
\* exits with status 1
Abort(exc) ==
    /\ pc' = "exit"
    /\ fault' = exc
    /\ at' = pc
    /\ exit_status' = 1

\* the request with 'all' written out
Expanded ==
    Flatten([j \in 1..Len(args.backends) |->
                IF args.backends[j] = "all" THEN BackendNames
                ELSE <<args.backends[j]>>])

RECURSIVE FirstOccurrences(_)
FirstOccurrences(s) ==
    IF s = <<>> THEN <<>>
    ELSE LET r == FirstOccurrences(SubSeq(s, 1, Len(s) - 1))
         IN  IF s[Len(s)] \in Keys(r) THEN r ELSE Append(r, s[Len(s)])

\* Registration by a loop over backend_list: the order of the request
RegistrationInRequestOrder(ok) ==
    SelectSeq(FirstOccurrences(Expanded), LAMBDA n : n \in ok)

\* Registration into a list, once for every entry of backend_list
RegistrationPerEntry(ok) ==
    SelectSeq(Expanded, LAMBDA n : n \in ok)

\* backends[name] = AerSimulator(...) in the order of the three blocks of
\* setup_backends, each entered when 'all' or the name is in backend_list
Registration(ok) ==
    SelectSeq(BackendNames, LAMBDA n : n \in ok)

\* SetupBackends followed by a run_benchmarks that does not test the dict
SetupBackendsNoCheck ==
    /\ UNCHANGED <<in_flight, warmed, warmup_raised, prev, script>>
    /\ pc = "setup_backends"
    /\ \E ok \in SUBSET {n \in NameSet : Requested(n)} :
         LET failed == {n \in NameSet : Requested(n)} \ ok
         IN  IF "cpu" \in failed
             THEN /\ init_failed' = {"cpu"}
                  /\ constructed' = <<"cpu">>
                  /\ backends' = backends
                  /\ Abort("InitError")
             ELSE /\ init_failed' = failed
                  /\ constructed' = SelectSeq(BackendNames, Requested)
                  /\ backends' = Registration(ok)
                  /\ pc' = "setup_parameters"
                  /\ UNCHANGED <<fault, at, exit_status>>
    /\ UNCHANGED <<args, qubit_sizes, results, i, b, locals,
                   failure_indicator, ran, csv, plots, exports>>

\* SetupBackends with a handler that still registers the backend
SetupBackendsKeepsFailed ==
    /\ UNCHANGED <<in_flight, warmed, warmup_raised, prev, script>>
    /\ pc = "setup_backends"
    /\ \E ok \in SUBSET {n \in NameSet : Requested(n)} :
         LET failed == {n \in NameSet : Requested(n)} \ ok
         IN  IF "cpu" \in failed
             THEN /\ init_failed' = {"cpu"}
                  /\ constructed' = <<"cpu">>
                  /\ backends' = backends
                  /\ Abort("InitError")
             ELSE /\ init_failed' = failed
                  /\ constructed' = SelectSeq(BackendNames, Requested)
                  /\ backends' = SelectSeq(BackendNames, Requested)
                  /\ pc' = "setup_parameters"
                  /\ UNCHANGED <<fault, at, exit_status>>
    /\ UNCHANGED <<args, qubit_sizes, results, i, b, locals,
                   failure_indicator, ran, csv, plots, exports>>

\* setup_backends and the "if not backends" test of run_benchmarks.  The cpu
\* construction is not inside a try: when it raises, the exception leaves
\* setup_backends before the gpu constructions are attempted.
SetupBackends ==
    /\ UNCHANGED <<in_flight, warmed, warmup_raised, prev, script>>
    /\ pc = "setup_backends"
    /\ \E ok \in SUBSET {n \in NameSet : Requested(n)} :
         LET failed == {n \in NameSet : Requested(n)} \ ok
         IN  IF "cpu" \in failed
             THEN /\ init_failed' = {"cpu"}
                  /\ constructed' = <<"cpu">>
                  /\ backends' = backends
                  /\ Abort("InitError")
             ELSE /\ init_failed' = failed
                  /\ constructed' = SelectSeq(BackendNames, Requested)
                  /\ backends' = Registration(ok)
                  /\ IF ok = {}
                     THEN /\ pc' = "exit"
                          /\ exit_status' = 1
                          /\ UNCHANGED <<fault, at>>
                     ELSE /\ pc' = "setup_parameters"
                          /\ UNCHANGED <<fault, at, exit_status>>
    /\ UNCHANGED <<args, qubit_sizes, results, i, b, locals,
                   failure_indicator, ran, csv, plots, exports>>

\* qubit_sizes = range(...) and the empty results table; range() raises
\* ValueError for a zero step
SetupParameters ==
    /\ UNCHANGED <<in_flight, warmed, warmup_raised, constructed, prev, script>>
    /\ pc = "setup_parameters"
    /\ IF args.step = 0
       THEN /\ Abort("ValueError")
            /\ UNCHANGED <<qubit_sizes, results>>
       ELSE /\ qubit_sizes' =
                  Range(args.min_qubits, args.max_qubits + 1, args.step)
            /\ results' =
                  [n \in Keys(backends) |-> [times |-> <<>>, stds |-> <<>>]]
            /\ pc' = IF args.warmup THEN "warmup" ELSE "for_size"
            /\ UNCHANGED <<fault, at, exit_status>>
    /\ UNCHANGED <<args, backends, i, b, locals, failure_indicator, ran,
                   init_failed, csv, plots, exports>>

Outcomes == {"success", "failed", "raised"}

\* WarmupRun without its try/except: an exception of the warmup execution
\* leaves run_benchmarks
WarmupRunFatal ==
    /\ UNCHANGED <<in_flight, constructed, prev, script>>
    /\ pc = "warmup"
    /\ b <= Len(backends)
    /\ ran' = ran \cup {backends[b]}
    /\ warmed' = Append(warmed, backends[b])
    /\ \E o \in Outcomes :
         /\ warmup_raised' = (warmup_raised \/ o = "raised")
         /\ IF o = "raised"
            THEN Abort("ExecutionError") /\ b' = b
            ELSE /\ IF b = Len(backends)
                    THEN pc' = "for_size" /\ b' = 1
                    ELSE pc' = pc /\ b' = b + 1
                 /\ UNCHANGED <<fault, at, exit_status>>
    /\ UNCHANGED <<args, backends, qubit_sizes, results, i, locals,
                   failure_indicator, init_failed, csv, plots, exports>>

\* warmup loop: one benchmark(backend, warmup_qc) per backend, its return
\* value dropped and any Exception printed
WarmupRun ==
    /\ UNCHANGED <<in_flight, constructed, prev, script>>
    /\ pc = "warmup"
    /\ b <= Len(backends)
    /\ \E o \in Outcomes : warmup_raised' = (warmup_raised \/ o = "raised")
    /\ ran' = ran \cup {backends[b]}
    /\ warmed' = Append(warmed, backends[b])
    /\ IF b = Len(backends)
       THEN pc' = "for_size" /\ b' = 1
       ELSE pc' = pc /\ b' = b + 1
    /\ UNCHANGED <<args, backends, qubit_sizes, results, i, locals,
                   failure_indicator, init_failed, fault, at, exit_status,
                   csv, plots, exports>>

\* ForSize leaving the loop one size early
ForSizeStopsEarly ==
    /\ UNCHANGED <<in_flight, warmed, warmup_raised, constructed, prev, script>>
    /\ pc = "for_size"
    /\ IF i + 1 < Len(qubit_sizes)
       THEN i' = i + 1 /\ b' = 1 /\ pc' = "for_backend"
       ELSE pc' = "save_data" /\ UNCHANGED <<i, b>>
    /\ UNCHANGED <<args, backends, qubit_sizes, results, locals,
                   failure_indicator, ran, init_failed, fault, at,
                   exit_status, csv, plots, exports>>

\* for n_qubits in qubit_sizes: next size and its circuit, or leave the loop
ForSize ==
    /\ UNCHANGED <<in_flight, warmed, warmup_raised, constructed, prev, script>>
    /\ pc = "for_size"
    /\ IF i < Len(qubit_sizes)
       THEN i' = i + 1 /\ b' = 1 /\ pc' = "for_backend"
       ELSE pc' = "save_data" /\ UNCHANGED <<i, b>>
    /\ UNCHANGED <<args, backends, qubit_sizes, results, locals,
                   failure_indicator, ran, init_failed, fault, at,
                   exit_status, csv, plots, exports>>

\* for name, backend in backends.items(): enter benchmark() or end the row
ForBackend ==
    /\ UNCHANGED <<in_flight, warmed, warmup_raised, constructed, prev, script>>
    /\ pc = "for_backend"
    /\ IF b <= Len(backends)
       THEN pc' = "benchmark"
       ELSE pc' = "for_size"
    /\ times' = <<>>
    /\ k' = 0
    /\ result' = "none"
    /\ failure_indicator' = FALSE
    /\ UNCHANGED <<args, backends, qubit_sizes, results, i, b, elapsed, ran,
                   init_failed, fault, at, exit_status, csv, plots, exports>>

\* the job of the execution benchmark() is at: (backend, size, repeat)
Job == <<backends[b], i, k + 1>>

\* start = time.time(); job = simulator.run(circuit): the job is submitted
Run ==
    /\ UNCHANGED <<warmed, warmup_raised, constructed, prev, script>>
    /\ pc = "benchmark"
    /\ k < args.repeats
    /\ in_flight' = in_flight \cup {Job}
    /\ ran' = ran \cup {backends[b]}
    /\ pc' = "running"
    /\ UNCHANGED <<args, backends, qubit_sizes, results, i, b, locals,
                   failure_indicator, init_failed, fault, at, exit_status,
                   csv, plots, exports>>

\* JobResult without the blocking call: the job is left running
JobResultNotAwaited ==
    /\ UNCHANGED <<in_flight, warmed, warmup_raised, constructed, prev,
                   script>>
    /\ pc = "running"
    /\ \E o \in Outcomes, d \in Durations :
         /\ result' = o
         /\ elapsed' = IF o = "raised" THEN 0 ELSE d
    /\ pc' = "timed"
    /\ UNCHANGED <<args, backends, qubit_sizes, results, i, b, k, times,
                   failure_indicator, ran, init_failed, fault, at,
                   exit_status, csv, plots, exports>>

\* result = job.result(); end = time.time(): blocks until the job has ended,
\* then returns a result (successful or carrying a failure) or raises
JobResult ==
    /\ UNCHANGED <<warmed, warmup_raised, constructed, prev, script>>
    /\ pc = "running"
    /\ \E o \in Outcomes, d \in Durations :
         /\ result' = o
         /\ elapsed' = IF o = "raised" THEN 0 ELSE d
    /\ in_flight' = in_flight \ {Job}
    /\ pc' = "timed"
    /\ UNCHANGED <<args, backends, qubit_sizes, results, i, b, k, times,
                   failure_indicator, ran, init_failed, fault, at,
                   exit_status, csv, plots, exports>>

\* times.append(end - start); the result object is not inspected
AppendTime ==
    /\ UNCHANGED <<in_flight, warmed, warmup_raised, constructed, prev, script>>
    /\ pc = "timed"
    /\ result # "raised"
    /\ times' = Append(times, elapsed)
    /\ k' = k + 1
    /\ failure_indicator' = (failure_indicator \/ result = "failed")
    /\ result' = "none"
    /\ elapsed' = 0
    /\ pc' = "benchmark"
    /\ UNCHANGED <<args, backends, qubit_sizes, results, i, b, ran,
                   init_failed, fault, at, exit_status, csv, plots, exports>>

\* Record assigning the cell instead of appending it
RecordOverwrite(name, t, s) ==
    [results EXCEPT ![name] = [times |-> <<t>>, stds |-> <<s>>]]

Record(name, t, s) ==
    [results EXCEPT ![name] = [times |-> Append(@.times, t),
                               stds |-> Append(@.stds, s)]]

\* ExceptHandler keeping the statistics of the repeats that did finish
ExceptHandlerPartial ==
    /\ UNCHANGED <<in_flight, warmed, warmup_raised, constructed, prev, script>>
    /\ pc = "timed"
    /\ result = "raised"
    /\ results' = Record(backends[b], Mean(times), Std(times))
    /\ b' = b + 1
    /\ pc' = "for_backend"
    /\ times' = <<>>
    /\ elapsed' = 0
    /\ UNCHANGED <<args, backends, qubit_sizes, i, k, result,
                   failure_indicator, ran, init_failed, fault, at,
                   exit_status, csv, plots, exports>>

\* ExceptHandler absent: the exception leaves run_benchmarks
ExceptHandlerReraise ==
    /\ UNCHANGED <<in_flight, warmed, warmup_raised, constructed, prev, script>>
    /\ pc = "timed"
    /\ result = "raised"
    /\ Abort("ExecutionError")
    /\ UNCHANGED <<args, backends, qubit_sizes, results, i, b, locals,
                   failure_indicator, ran, init_failed, csv, plots, exports>>

\* except Exception: the cell is nan/nan and the inner loop goes on
ExceptHandler ==
    /\ UNCHANGED <<in_flight, warmed, warmup_raised, constructed, prev, script>>
    /\ pc = "timed"
    /\ result = "raised"
    /\ results' = Record(backends[b], NaN, NaN)
    /\ b' = b + 1
    /\ pc' = "for_backend"
    /\ times' = <<>>
    /\ elapsed' = 0
    /\ UNCHANGED <<args, backends, qubit_sizes, i, k, result,
                   failure_indicator, ran,
                   init_failed, fault, at, exit_status, csv, plots, exports>>

\* return np.mean(times), np.std(times) and the two appends of the caller
ReturnStats ==
    /\ UNCHANGED <<in_flight, warmed, warmup_raised, constructed, prev, script>>
    /\ pc = "benchmark"
    /\ k >= args.repeats
    /\ results' = Record(backends[b], Mean(times), Std(times))
    /\ b' = b + 1
    /\ pc' = "for_backend"
    /\ times' = <<>>
    /\ UNCHANGED <<args, backends, qubit_sizes, i, k, result, elapsed,
                   failure_indicator, ran, init_failed, fault, at,
                   exit_status, csv, plots, exports>>

\* CsvField writing a failed cell as a number
CsvFieldZeroFill(v) ==
    IF v.kind = "nan"
    THEN [text |-> "float", kind |-> "num", num |-> 0, den |-> 1]
    ELSE [text |-> "float", kind |-> v.kind, num |-> v.num, den |-> v.den]

\* csv.writer writes str(value) for every field
CsvField(v) ==
    IF v.kind = "nan" THEN [text |-> "nan"]
    ELSE [text |-> "float", kind |-> v.kind, num |-> v.num, den |-> v.den]

CsvHeader ==
    <<"qubits">> \o
    Flatten([j \in 1..Len(backends) |->
                <<backends[j] \o "_time", backends[j] \o "_std">>])

CsvRow(r) ==
    <<qubit_sizes[r]>> \o
    Flatten([j \in 1..Len(backends) |->
                <<CsvField(results[backends[j]].times[r]),
                  CsvField(results[backends[j]].stds[r])>>])

\* WriteCsv with the file opened for appending
WriteCsvAppend(file) ==
    file \o <<CsvHeader>> \o [r \in 1..Len(qubit_sizes) |-> CsvRow(r)]

\* with open(csv_file, 'w', newline='') as f: what the file held is dropped,
\* then the header and one row per size are written
WriteCsv(file) ==
    <<CsvHeader>> \o [r \in 1..Len(qubit_sizes) |-> CsvRow(r)]

\* if args.save_data: save_benchmark_data(...)
SaveBenchmarkData ==
    /\ UNCHANGED <<in_flight, warmed, warmup_raised, constructed, prev, script>>
    /\ pc = "save_data"
    /\ \E save_data \in BOOLEAN :
         IF save_data
         THEN /\ csv' = WriteCsv(csv)
              /\ exports' = exports \cup {"csv"}
         ELSE UNCHANGED <<csv, exports>>
    /\ pc' = "generate_plots"
    /\ UNCHANGED <<args, backends, qubit_sizes, results, i, b, locals,
                   failure_indicator, ran, init_failed, fault, at,
                   exit_status, plots>>

\* ax.plot(qubit_array, y): the points (x, y) of one line
Series(y) == [j \in 1..Len(qubit_sizes) |-> <<qubit_sizes[j], y[j]>>]

Speedup(name) ==
    [j \in 1..Len(qubit_sizes) |->
        Div(results["cpu"].times[j], results[name].times[j])]

\* if not args.no_plots: generate_plots(...), then "Benchmark complete!"
GeneratePlots ==
    /\ UNCHANGED <<in_flight, warmed, warmup_raised, constructed, prev, script>>
    /\ pc = "generate_plots"
    /\ \E no_plots \in BOOLEAN :
         IF ~no_plots
         THEN /\ plots' =
                   [speedup |->
                       IF "cpu" \in DOMAIN results
                       THEN [n \in DOMAIN results \ {"cpu"} |->
                                Series(Speedup(n))]
                       ELSE EmptyDict,
                    times |-> [n \in DOMAIN results |->
                                Series(results[n].times)]]
              /\ exports' = exports \cup {"plots"}
         ELSE UNCHANGED <<plots, exports>>
    /\ pc' = "done"
    /\ exit_status' = 0
    /\ UNCHANGED <<args, backends, qubit_sizes, results, i, b, locals,
                   failure_indicator, ran, init_failed, fault, at, csv>>

Running == {"setup_backends", "setup_parameters", "warmup", "for_size",
            "for_backend", "benchmark", "running", "timed", "save_data",
            "generate_plots"}

\* positions inside the body of the loop over the sizes: a row is being built
InRow == {"for_backend", "benchmark", "running", "timed"}

\* KeyboardInterrupt between rows treated as the end of the sweep
KeyboardInterruptExports ==
    /\ UNCHANGED <<in_flight, warmed, warmup_raised, constructed, prev, script>>
    /\ pc \in Running
    /\ fault' = "KeyboardInterrupt"
    /\ at' = pc
    /\ pc' = IF pc = "for_size" THEN "save_data" ELSE "exit"
    /\ exit_status' = IF pc = "for_size" THEN exit_status ELSE 1
    /\ UNCHANGED <<args, backends, qubit_sizes, results, i, b, locals,
                   failure_indicator, ran, init_failed, csv, plots, exports>>

\* KeyboardInterrupt caught inside run_benchmarks: the sweep ends where it is
\* and the exports run on the table as it stands
KeyboardInterruptSavesPartial ==
    /\ UNCHANGED <<warmed, warmup_raised, constructed, prev, script>>
    /\ pc \in Running
    /\ fault' = "KeyboardInterrupt"
    /\ at' = pc
    /\ in_flight' = {}
    /\ pc' = IF pc \in InRow THEN "save_data" ELSE "exit"
    /\ exit_status' = IF pc \in InRow THEN exit_status ELSE 1
    /\ UNCHANGED <<args, backends, qubit_sizes, results, i, b, locals,
                   failure_indicator, ran, init_failed, csv, plots, exports>>

\* Ctrl-C while run_benchmarks is on the stack: main prints a message and
\* exits with status 1; nothing more of run_benchmarks is executed.  The
\* simulators, the frame of benchmark() and the in-memory results table end
\* with the process; what was written to the output directory stays.
KeyboardInterrupt ==
    /\ UNCHANGED <<warmed, warmup_raised, constructed, prev, script>>
    /\ pc \in Running
    /\ Abort("KeyboardInterrupt")
    /\ in_flight' = {}
    /\ backends' = <<>>
    /\ results' = EmptyDict
    /\ b' = 1
    /\ k' = 0
    /\ times' = <<>>
    /\ result' = "none"
    /\ elapsed' = 0
    /\ failure_indicator' = FALSE
    /\ UNCHANGED <<args, qubit_sizes, i, ran, init_failed, csv, plots,
                   exports>>

Next ==
    \/ SetupBackends
    \/ SetupParameters
    \/ WarmupRun
    \/ ForSize
    \/ ForBackend
    \/ Run
    \/ JobResult
    \/ AppendTime
    \/ ExceptHandler
    \/ ReturnStats
    \/ SaveBenchmarkData
    \/ GeneratePlots
    \/ KeyboardInterrupt

Spec == Init /\ [][Next]_vars

\* command lines of a sweep of one timed repeat
RunArgsSet ==
    [backends : BackendLists, repeats : {1}, min_qubits : {1},
     max_qubits : 1..MaxQubits, step : {1}, warmup : BOOLEAN]

InitRuns == args \in RunArgsSet /\ Start

\* save_benchmark_data(results, qubit_sizes, args) called once more on the
\* table of a finished run that has exported it
SaveBenchmarkDataAgain ==
    /\ pc = "done"
    /\ "csv" \in exports
    /\ csv' = WriteCsv(csv)
    /\ exports' = exports \cup {"csv again"}
    /\ UNCHANGED <<args, pc, backends, qubit_sizes, results, i, b, locals,
                   failure_indicator, ran, init_failed, fault, at,
                   exit_status, plots, in_flight, warmed, warmup_raised,
                   constructed, prev, script>>

\* the program is started again after a run in which all backends but one
\* failed to construct, with the same command line except that --backends
\* names the one backend that run registered; the files of the output
\* directory stay until they are written again
NextRun ==
    /\ pc = "done"
    /\ prev = <<>>
    /\ "csv" \in exports
    /\ init_failed # {}
    /\ Len(backends) = 1
    /\ prev' = <<[request |-> args.backends, init_failed |-> init_failed,
                  backends |-> backends, results |-> results, csv |-> csv]>>
    /\ args' = [args EXCEPT !.backends = backends]
    /\ pc' = "setup_backends"
    /\ backends' = <<>>
    /\ qubit_sizes' = <<>>
    /\ results' = EmptyDict
    /\ i' = 0
    /\ b' = 1
    /\ k' = 0
    /\ times' = <<>>
    /\ result' = "none"
    /\ elapsed' = 0
    /\ failure_indicator' = FALSE
    /\ ran' = {}
    /\ init_failed' = {}
    /\ fault' = "none"
    /\ at' = "none"
    /\ exit_status' = 0 - 1
    /\ exports' = {}
    /\ in_flight' = {}
    /\ warmed' = <<>>
    /\ warmup_raised' = FALSE
    /\ constructed' = <<>>
    /\ UNCHANGED <<csv, plots, script>>

NextRuns ==
    \/ SetupBackends
    \/ SetupParameters
    \/ WarmupRun
    \/ ForSize
    \/ ForBackend
    \/ Run
    \/ JobResult
    \/ AppendTime
    \/ ExceptHandler
    \/ ReturnStats
    \/ SaveBenchmarkData
    \/ GeneratePlots
    \/ KeyboardInterrupt
    \/ SaveBenchmarkDataAgain
    \/ NextRun

\* the program run, its csv export repeated, and the program run again
SpecRuns == InitRuns /\ [][NextRuns]_vars

\* the same program started with the longer requests
SpecLists == InitLists /\ [][Next]_vars

TypeOK ==
    /\ pc \in Running \cup {"done", "exit"}
    /\ exit_status \in {0 - 1, 0, 1}

\* ------------------------------------------------------ benchmarks.py

\* the parameters the script fixes: three simulators, one execution per
\* cell, qubit_sizes = range(2, 25, 2), no warmup
ScriptArgs ==
    [backends |-> <<"all">>, repeats |-> 1, min_qubits |-> 2,
     max_qubits |-> 24, step |-> 2, warmup |-> FALSE]

\* the sizes of the script's loop, followed for its first MaxScriptRows rows
ScriptSizes ==
    LET all == Range(args.min_qubits, args.max_qubits + 1, args.step)
    IN  SubSeq(all, 1, IF Len(all) < MaxScriptRows THEN Len(all)
                       ELSE MaxScriptRows)

\* the three simulators exist and the three lists are empty
InitScript == args = ScriptArgs /\ pc = "script_for" /\ Fresh

\* what the script's steps leave alone
run_state ==
    <<args, backends, qubit_sizes, results, b, locals, failure_indicator,
      init_failed, csv, plots, exports, in_flight, warmed, warmup_raised,
      constructed, prev>>

\* for n_qubits in qubit_sizes: the circuit of the next size is built
ScriptFor ==
    /\ pc = "script_for"
    /\ IF i < Len(ScriptSizes)
       THEN i' = i + 1 /\ pc' = "script_cpu"
       ELSE i' = i /\ pc' = "script_done"
    /\ UNCHANGED <<run_state, script, ran, fault, at, exit_status>>

\* benchmark(simulator, circuit): end - start, or the exception of run() or
\* of result() caught by the caller and replaced with np.nan
ScriptBenchmark(o, d) == IF o = "raised" THEN NaN ELSE Num(d, 1)

\* t_cpu = benchmark(sim_cpu, qc_t); cpu_times.append(t_cpu): no try around
\* the call, an exception ends the script with a traceback
ScriptCpu ==
    /\ pc = "script_cpu"
    /\ ran' = ran \cup {"cpu"}
    /\ \E o \in Outcomes, d \in Durations :
         IF o = "raised"
         THEN Abort("ExecutionError") /\ script' = script
         ELSE /\ script' = [script EXCEPT
                                !.cpu_times = Append(@, ScriptBenchmark(o, d))]
              /\ pc' = "script_gpu_default"
              /\ UNCHANGED <<fault, at, exit_status>>
    /\ UNCHANGED <<run_state, i>>

\* try: t_gpu_default = benchmark(...) except Exception: t_gpu_default =
\* np.nan; then gpu_default_times.append(t_gpu_default)
ScriptGpuDefault ==
    /\ pc = "script_gpu_default"
    /\ \E o \in Outcomes, d \in Durations :
         script' = [script EXCEPT
                        !.gpu_default_times = Append(@, ScriptBenchmark(o, d))]
    /\ ran' = ran \cup {"gpu_default"}
    /\ pc' = "script_gpu_custatevec"
    /\ UNCHANGED <<run_state, i, fault, at, exit_status>>

\* the same for sim_gpu_custatevec and gpu_custatevec_times
ScriptGpuCuStateVec ==
    /\ pc = "script_gpu_custatevec"
    /\ \E o \in Outcomes, d \in Durations :
         script' = [script EXCEPT
                        !.gpu_custatevec_times =
                            Append(@, ScriptBenchmark(o, d))]
    /\ ran' = ran \cup {"gpu_custatevec"}
    /\ pc' = "script_for"
    /\ UNCHANGED <<run_state, i, fault, at, exit_status>>

NextScript ==
    \/ ScriptFor
    \/ ScriptCpu
    \/ ScriptGpuDefault
    \/ ScriptGpuCuStateVec

SpecScript == InitScript /\ [][NextScript]_vars

\* ------------------------------------------------------------- claims
Failed(n, j) == results[n].times[j].kind = "nan"

Succeeded(n, j) == results[n].times[j].kind = "num"

Rows(n) == Len(results[n].times)

\* C1: a timed execution that raises on any repeat makes the cell nan/nan and
\* drops the durations collected so far; a numeric cell is always the
\* mean/std of exactly `repeats` durations.
C1_FailedRepeatDiscardsSample ==
    /\ [](\A n \in DOMAIN results : \A j \in 1..Rows(n) :
            /\ Succeeded(n, j) =>
                 /\ results[n].times[j].den = args.repeats
                 /\ results[n].stds[j].kind = "sqrt"
                 /\ results[n].stds[j].den = args.repeats * args.repeats
            /\ Failed(n, j) => results[n].stds[j] = NaN)
    /\ [][(pc = "timed" /\ result = "raised" /\ fault' = "none") =>
            /\ results'[backends[b]].times =
                   Append(results[backends[b]].times, NaN)
            /\ results'[backends[b]].stds =
                   Append(results[backends[b]].stds, NaN)
            /\ times' = <<>>]_vars

\* a cell was recorded as nan after one or more repeats had succeeded
C1_Witness ==
    /\ pc = "for_backend"
    /\ b > 1
    /\ result = "raised"
    /\ k >= 1
    /\ results[backends[b - 1]].times[i] = NaN

\* C2: an execution failure of one backend never reaches main; the handler
\* leaves every other backend's cells as they were, moves on to the next
\* backend of the same row, and a finished sweep has a cell at every size.
C2_FailureStaysInTrial ==
    /\ [](fault \notin {"none", "KeyboardInterrupt"} =>
            at \in {"setup_backends", "setup_parameters"})
    /\ [](pc = "done" =>
            \A n \in DOMAIN results : Rows(n) = Len(qubit_sizes))
    /\ [][(pc = "timed" /\ result = "raised" /\ fault' = "none") =>
            /\ \A n \in DOMAIN results \ {backends[b]} :
                   results'[n] = results[n]
            /\ pc' = "for_backend"
            /\ b' = b + 1
            /\ i' = i
            /\ backends' = backends
            /\ qubit_sizes' = qubit_sizes]_vars

\* the first backend failed at the first size; the second backend of that
\* row and the first backend at the next size were still measured
C2_Witness ==
    /\ pc = "done"
    /\ args.repeats >= 1
    /\ Len(qubit_sizes) = 2
    /\ Len(backends) >= 2
    /\ Failed(backends[1], 1)
    /\ Succeeded(backends[2], 1)
    /\ Succeeded(backends[1], 2)

\* C3: a backend whose construction raised is not a key of backends, of the
\* results table or of any plotted series, and run() is never called on it.
C3_FailedInitExcluded ==
    \A n \in init_failed :
        /\ n \notin Keys(backends)
        /\ n \notin DOMAIN results
        /\ n \notin DOMAIN plots.times
        /\ n \notin DOMAIN plots.speedup
        /\ n \notin ran

\* a run with a backend that failed to construct swept two sizes
C3_Witness ==
    /\ pc = "done"
    /\ init_failed # {}
    /\ ran # {}
    /\ Len(qubit_sizes) = 2
    /\ "plots" \in exports

\* C4: the construction failure of any requested backend is caught inside
\* setup_backends; it never reaches main as a fault, and the run goes on
\* with the backends that did construct.
C4_InitFailureNeverEscapes ==
    init_failed # {} => fault # "InitError"

\* C5: at every row boundary each active backend has exactly one times and
\* one stds entry per size taken so far, inside a row the backends already
\* visited have the row's cell and the others do not, and no step changes
\* an entry that was already recorded.
C5_OneCellPerPairNeverOverwritten ==
    /\ [](pc = "for_size" =>
            \A n \in DOMAIN results :
                Len(results[n].times) = i /\ Len(results[n].stds) = i)
    /\ [](pc \in {"for_backend", "benchmark", "running", "timed"} =>
            \A j \in 1..Len(backends) :
                /\ Rows(backends[j]) = IF j < b THEN i ELSE i - 1
                /\ Len(results[backends[j]].stds) = Rows(backends[j]))
    /\ [][\A n \in DOMAIN results \cap DOMAIN results' :
            \A j \in 1..Rows(n) :
                /\ j <= Len(results'[n].times)
                /\ j <= Len(results'[n].stds)
                /\ results'[n].times[j] = results[n].times[j]
                /\ results'[n].stds[j] = results[n].stds[j]]_vars

\* the inner loop finished for the second size with two active backends
C5_Witness ==
    /\ pc = "for_size"
    /\ i = 2
    /\ Len(backends) >= 2
    /\ \A n \in DOMAIN results : Rows(n) = 2

\* C6: once the sweep loop has completed, and through the exports to the end
\* of the run, every active backend has as many times and stds entries as
\* there are sizes, whatever the number of failed cells.
C6_OneRowPerSize ==
    pc \in {"save_data", "generate_plots", "done"} =>
        /\ DOMAIN results = Keys(backends)
        /\ \A n \in DOMAIN results :
               /\ Len(results[n].times) = Len(qubit_sizes)
               /\ Len(results[n].stds) = Len(qubit_sizes)

\* a completed run over two sizes in which a cell failed
C6_Witness ==
    /\ pc = "done"
    /\ args.repeats >= 1
    /\ Len(qubit_sizes) = 2
    /\ \E n \in DOMAIN results : Failed(n, 1) /\ Succeeded(n, 2)

\* C7 as stated: after an interrupt between two rows the rows completed so
\* far are kept and the run goes on to the export adapters as a successful
\* partial run, not to an error exit.
C7_InterruptKeepsRows ==
    (fault = "KeyboardInterrupt" /\ at = "for_size"
        /\ i >= 1 /\ i < Len(qubit_sizes)) =>
        /\ pc \in {"save_data", "generate_plots", "done"}
        /\ exit_status # 1
        /\ \A n \in DOMAIN results : Rows(n) = i

\* C7 amended: an interrupt between two rows ends the run at once: no
\* further row is run, no export adapter is invoked, and the process exits
\* with status 1; the rows completed so far are not written anywhere.
C7_InterruptBetweenRowsExits ==
    /\ []((fault = "KeyboardInterrupt" /\ at = "for_size") =>
            /\ pc = "exit"
            /\ exit_status = 1
            /\ exports = {}
            /\ csv = <<>>
            /\ plots = NoPlots
            /\ results = EmptyDict)
    /\ [][pc # "exit"]_vars

\* the interrupt arrived after the first of two rows
C7_Witness ==
    /\ pc = "exit"
    /\ fault = "KeyboardInterrupt"
    /\ at = "for_size"
    /\ i = 1
    /\ Len(qubit_sizes) = 2

\* zero repeats, a step that is not positive, or an empty size sequence
InvalidConfig ==
    \/ args.repeats <= 0
    \/ args.step <= 0
    \/ RangeLen(args.min_qubits, args.max_qubits + 1, args.step) = 0

\* C8: with invalid sweep parameters the run is fatal before any execution:
\* run() is never called, no cell is recorded, the run never completes.
C8_InvalidConfigRejected ==
    InvalidConfig =>
        /\ ran = {}
        /\ \A n \in DOMAIN results : Rows(n) = 0
        /\ pc # "done"

\* C9: a trial in which a result carried a failure indicator is recorded as
\* a failed cell; its elapsed time is not part of a numeric cell.
C9_FailedResultIsFailure ==
    (pc = "for_backend" /\ b > 1 /\ failure_indicator) =>
        Failed(backends[b - 1], i)

OperandFailed(n, j) == Failed("cpu", j) \/ Failed(n, j)

\* C10 as stated: the speedup series has no point at a size where either
\* operand cell failed, and there is no speedup series without cpu.
C10_FailedPointAbsent ==
    "plots" \in exports =>
        /\ "cpu" \notin DOMAIN results => DOMAIN plots.speedup = {}
        /\ \A n \in DOMAIN plots.speedup : \A j \in 1..Len(qubit_sizes) :
               OperandFailed(n, j) =>
                   ~\E p \in 1..Len(plots.speedup[n]) :
                        plots.speedup[n][p][1] = qubit_sizes[j]

\* C10 amended: every speedup series has one point per size; where either
\* operand cell failed the point's value is nan (not zero, not infinite, not
\* a number), and there is no speedup series without cpu.
C10_FailedPointIsNaN ==
    "plots" \in exports =>
        /\ "cpu" \notin DOMAIN results => DOMAIN plots.speedup = {}
        /\ "cpu" \in DOMAIN results =>
               DOMAIN plots.speedup = DOMAIN results \ {"cpu"}
        /\ \A n \in DOMAIN plots.speedup :
               /\ Len(plots.speedup[n]) = Len(qubit_sizes)
               /\ \A j \in 1..Len(qubit_sizes) :
                      /\ plots.speedup[n][j][1] = qubit_sizes[j]
                      /\ OperandFailed(n, j) => plots.speedup[n][j][2] = NaN

\* a plotted speedup series with a failed point and a measured point
C10_Witness ==
    /\ "plots" \in exports
    /\ args.repeats >= 1
    /\ Len(qubit_sizes) = 2
    /\ \E n \in DOMAIN plots.speedup :
           /\ Failed(n, 1)
           /\ plots.speedup[n][1][2] = NaN
           /\ plots.speedup[n][2][2].kind = "num"

\* the table is whole: one entry per active backend, each with one mean and
\* one deviation per size of the sweep
FullTable ==
    /\ DOMAIN results = Keys(backends)
    /\ \A n \in DOMAIN results :
           /\ Len(results[n].times) = Len(qubit_sizes)
           /\ Len(results[n].stds) = Len(qubit_sizes)

\* C11: save_benchmark_data and generate_plots are only ever invoked on a
\* table with no partial row: where an export is about to run, and on every
\* step that runs one, every active backend has as many cells as the sweep has
\* sizes and no exception or interrupt is pending; a run that was interrupted
\* inside a row has exited and has run no export.
C11_ExportsSeeWholeRows ==
    /\ [](pc \in {"save_data", "generate_plots"} =>
              FullTable /\ fault = "none")
    /\ [][exports' # exports => FullTable /\ fault = "none"]_vars
    /\ []((fault # "none" /\ at \in InRow) =>
              pc = "exit" /\ exports = {})

\* both exports have run on a two-row table in which a trial failed
C11_Witness ==
    /\ exports = {"csv", "plots"}
    /\ Len(qubit_sizes) = 2
    /\ FullTable
    /\ \E n \in DOMAIN results : Failed(n, 1) /\ Succeeded(n, 2)

\* the number of warmup executions made on a backend
Count(name, seq) == Cardinality({j \in 1..Len(seq) : seq[j] = name})

\* C12 as stated: with --warmup every trial, one backend against one size,
\* is preceded by one untimed execution of its own, so when the trial of the
\* i-th size starts its timed repeats the backend has been warmed up i times.
C12_WarmupBeforeEachTrial ==
    (args.warmup /\ pc = "benchmark" /\ k < args.repeats) =>
        Count(backends[b], warmed) = i

\* C12 amended: with --warmup every active backend performs exactly one
\* untimed execution, all of them before the first trial of the sweep and in
\* registration order, and without --warmup there is none; a warmup
\* execution records nothing in the table, and when it raises the run goes on
\* to the next warmup or to the sweep.
C12_WarmupOncePerBackend ==
    /\ [](~args.warmup => warmed = <<>>)
    /\ []((args.warmup /\ pc \in InRow \cup {"for_size", "save_data",
                                             "generate_plots", "done"}) =>
              warmed = backends)
    /\ [][warmed' # warmed =>
              /\ pc = "warmup"
              /\ results' = results
              /\ \A n \in DOMAIN results : results[n].times = <<>>
              /\ pc' \in {"warmup", "for_size"}
              /\ fault' = "none"]_vars
    /\ [](fault \notin {"none", "KeyboardInterrupt"} => at # "warmup")

\* a warmup execution raised, and the sweep that followed measured every
\* cell of a two-row table of three backends
C12_Witness ==
    /\ args.warmup
    /\ warmup_raised
    /\ pc = "done"
    /\ args.repeats >= 1
    /\ Len(qubit_sizes) = 2
    /\ warmed = <<"cpu", "gpu_default", "gpu_custatevec">>
    /\ \A n \in DOMAIN results : Succeeded(n, 1) /\ Succeeded(n, 2)

\* the backends setup_backends registers: requested, and constructed
Registered(name) == Requested(name) /\ name \notin init_failed

\* C13: the csv has its backend columns in the registration order of
\* setup_backends (cpu, gpu_default, gpu_custatevec, whatever the order of
\* the request) and its rows in sweep order: row r holds the r-th size and,
\* for each backend, exactly the mean and deviation recorded for that size.
C13_CsvOrder ==
    ("csv" \in exports /\ pc \in {"generate_plots", "done"}) =>
        LET reg == SelectSeq(BackendNames, Registered)
        IN  /\ Len(csv) = 1 + Len(qubit_sizes)
            /\ csv[1] = <<"qubits">> \o
                   Flatten([j \in 1..Len(reg) |->
                               <<reg[j] \o "_time", reg[j] \o "_std">>])
            /\ \A r \in 1..Len(qubit_sizes) :
                   /\ Len(csv[r + 1]) = 1 + 2 * Len(reg)
                   /\ csv[r + 1][1] = args.min_qubits + (r - 1) * args.step
                   /\ \A j \in 1..Len(reg) :
                          /\ csv[r + 1][2 * j] =
                                 CsvField(results[reg[j]].times[r])
                          /\ csv[r + 1][2 * j + 1] =
                                 CsvField(results[reg[j]].stds[r])

\* a csv of two rows written for a request that names cpu last: cpu is the
\* first column all the same, and its two cells differ
C13_Witness ==
    /\ "csv" \in exports
    /\ pc = "done"
    /\ args.backends = <<"gpu_custatevec", "cpu">>
    /\ backends = <<"cpu", "gpu_custatevec">>
    /\ Len(qubit_sizes) = 2
    /\ Failed("cpu", 1)
    /\ Succeeded("cpu", 2)
    /\ Succeeded("gpu_custatevec", 1)

\* the table and its csv as this run has them
Exported == "csv" \in exports /\ pc \in {"generate_plots", "done"}

\* this run and the run before it differ only in that every backend that
\* failed to construct then is not selected now: same sweep, same active
\* backends, same cells
DiffersOnlyInSelection ==
    /\ Len(prev) = 1
    /\ prev[1].init_failed # {}
    /\ \A n \in prev[1].init_failed : ~Requested(n)
    /\ init_failed = {}
    /\ backends = prev[1].backends
    /\ results = prev[1].results

\* C14 as stated: a run in which a backend failed to initialize and a run in
\* which it was not selected never write the same csv, and a failed cell is
\* never written as the number zero.
C14_ExportTellsUnusableFromUnselected ==
    Exported =>
        /\ DiffersOnlyInSelection => csv # prev[1].csv
        /\ \A r \in 1..Len(qubit_sizes) : \A j \in 1..Len(backends) :
               Failed(backends[j], r) =>
                   csv[r + 1][2 * j] # CsvField(Num(0, 1))

\* C14 amended: the csv tells a failed cell (written nan, never a number)
\* from a measured cell (written as its number), and has columns for the
\* registered backends only; a backend that failed to initialize is absent
\* from it exactly as one that was not selected, so that two runs differing
\* only in this write the same csv.
C14_ExportTellsFailedCellOnly ==
    Exported =>
        /\ DiffersOnlyInSelection => csv = prev[1].csv
        /\ Len(csv[1]) = 1 + 2 * Len(backends)
        /\ \A n \in init_failed : \A c \in 1..Len(csv[1]) :
               csv[1][c] \notin {n \o "_time", n \o "_std"}
        /\ \A r \in 1..Len(qubit_sizes) : \A j \in 1..Len(backends) :
               /\ Failed(backends[j], r) =>
                      csv[r + 1][2 * j] = [text |-> "nan"]
               /\ Succeeded(backends[j], r) =>
                      /\ csv[r + 1][2 * j].text = "float"
                      /\ csv[r + 1][2 * j].num =
                             results[backends[j]].times[r].num
                      /\ csv[r + 1][2 * j].den =
                             results[backends[j]].times[r].den

\* a run that lost a backend at construction and a run that did not select
\* it have written the same two-row csv, with a failed and a measured cell
C14_Witness ==
    /\ Exported
    /\ pc = "done"
    /\ DiffersOnlyInSelection
    /\ csv = prev[1].csv
    /\ Len(qubit_sizes) = 2
    /\ \E n \in DOMAIN results : Failed(n, 1) /\ Succeeded(n, 2)

\* C15: save_benchmark_data run a second time on the same finished table
\* leaves the csv exactly as the first run wrote it, and no export changes
\* the table it reads: the results, the sizes and the backends are the same
\* after every step that writes the csv or the plots.
C15_ExportIdempotentReadOnly ==
    /\ [][(pc = "done" /\ "csv again" \in exports') =>
              csv' = csv /\ csv' = WriteCsv(<<>>)]_vars
    /\ [][((csv' # csv \/ plots' # plots \/ exports' # exports)
               /\ pc' # "setup_backends") =>
              /\ results' = results
              /\ qubit_sizes' = qubit_sizes
              /\ backends' = backends]_vars

\* the csv of a two-row table with a failed cell has been written twice
C15_Witness ==
    /\ "csv again" \in exports
    /\ pc = "done"
    /\ Len(csv) = 3
    /\ \E n \in DOMAIN results : Failed(n, 1) /\ Succeeded(n, 2)

\* the request names a backend more than once, directly or through 'all'
Duplicated == Len(Expanded) > Cardinality(Keys(Expanded))

NoRepeat(seq) == Cardinality(Keys(seq)) = Len(seq)

\* C16 as stated: a request that names a backend twice, or 'all' together
\* with a name, is refused with a DuplicateName error, and no name is
\* registered twice.
C16_DuplicateNameRejected ==
    /\ (Duplicated /\ pc # "setup_backends") => fault = "DuplicateName"
    /\ NoRepeat(backends)

\* C16 amended: such a request is accepted without any error of its own:
\* setup_backends tries each requested backend once, in the fixed order,
\* registers each constructed one once, and the run goes on as for the
\* request without the repetition; no name is ever registered twice.
C16_DuplicateRequestAccepted ==
    /\ NoRepeat(backends)
    /\ NoRepeat(constructed)
    /\ fault \in {"none", "InitError", "ValueError", "KeyboardInterrupt"}
    /\ (pc # "setup_backends" /\ fault = "none") =>
           /\ Keys(constructed) = {n \in NameSet : Requested(n)}
           /\ backends = SelectSeq(BackendNames, Registered)
           /\ pc = "exit" <=> backends = <<>>

\* a run asked for cpu and for all has finished with each of the three
\* backends registered once
C16_Witness ==
    /\ args.backends = <<"cpu", "all">>
    /\ Duplicated
    /\ pc = "done"
    /\ exit_status = 0
    /\ backends = BackendNames
    /\ constructed = BackendNames

\* C17: timed executions are strictly sequential: at most one job is in
\* flight at any moment, a job is submitted only when none is in flight, and
\* the program is past the blocking result call (which returned or raised)
\* before it does anything else, on any backend.
C17_OneExecutionInFlight ==
    /\ [](Cardinality(in_flight) <= 1)
    /\ [](pc = "running" => in_flight = {Job})
    /\ [](pc # "running" => in_flight = {})
    /\ [][~(in_flight' \subseteq in_flight) =>
              /\ in_flight = {}
              /\ pc = "benchmark"
              /\ pc' = "running"]_vars

\* the second repeat of the second backend at the second size is in flight,
\* after the first repeat's result call returned
C17_Witness ==
    /\ pc = "running"
    /\ in_flight = {<<"gpu_default", 2, 2>>}
    /\ times = <<1>>
    /\ "cpu" \in DOMAIN results
    /\ Rows("cpu") = 2

\* C18: when setup_backends returns no backend, run_benchmarks exits with
\* status 1 before any warmup, any timed trial and any export; and wherever
\* the run is past that test, in the warmup, in the sweep or after it, at
\* least one backend is active.
C18_NoBackendNoSweep ==
    /\ (pc # "setup_backends" /\ fault = "none" /\ backends = <<>>) =>
           /\ pc = "exit"
           /\ exit_status = 1
           /\ ran = {}
           /\ warmed = <<>>
           /\ exports = {}
           /\ qubit_sizes = <<>>
           /\ results = EmptyDict
    /\ pc \in InRow \cup {"setup_parameters", "warmup", "for_size",
                          "save_data", "generate_plots", "done"} =>
           Len(backends) >= 1

\* both gpu backends were requested alone and failed to construct: the run
\* has exited with status 1 and has executed nothing
C18_Witness ==
    /\ pc = "exit"
    /\ fault = "none"
    /\ exit_status = 1
    /\ backends = <<>>
    /\ init_failed # {}
    /\ "cpu" \notin init_failed
    /\ ran = {}

\* C19: in benchmarks.py an execution failure of any of the three simulators
\* is recorded for that simulator only and the sweep continues: no failure
\* ends the script, and at every boundary between two iterations of the loop
\* cpu_times, gpu_default_times and gpu_custatevec_times have one entry per
\* size visited.
C19_ScriptFailureStaysInCell ==
    /\ pc # "exit"
    /\ fault = "none"
    /\ pc \in {"script_for", "script_done"} =>
           /\ Len(script.cpu_times) = i
           /\ Len(script.gpu_default_times) = i
           /\ Len(script.gpu_custatevec_times) = i
====
